---- MODULE Spec2Model ----
(***************************************************************************)
(* dragonmapper.hanzi: identification of a string's character system and   *)
(* conversion of Hanzi to Pinyin readings.                                 *)
(*                                                                         *)
(* A string is a sequence of characters; a character is a one-element      *)
(* token ("H1", "H2" are Hanzi, "k", "x", ... Latin letters, "a1" and     *)
(* "i1" tone-marked vowels, " " the space, "P" a CJK punctuation mark).   *)
(***************************************************************************)
EXTENDS Integers, Sequences, FiniteSets, TLC

(* ---------------------------------------------------------------- bounds *)

\* Longest input string handed to to_pinyin / to_zhuyin / to_ipa.
MaxLen == 4
\* Longest input string handed to identify and its companions.
MaxIdLen == 3

(* ------------------------------------------------------ program constants *)

UNKNOWN == 0
TRADITIONAL == 1
SIMPLIFIED == 2
BOTH == 3
MIXED == 4

_READING_SEPARATOR == "/"

(* ------------------------------------------------------------ alphabets *)

\* Characters an input string is made of.
Alphabet == {"H1", "H2", "k", " ", "P"}
\* Characters the character-set tables are drawn from.
IdChars == {"H1", "H2", "k"}
\* Values of the delimiter argument (the default, and a Latin letter).
Delimiters == {" ", "k"}

\* zhon.hanzi.punctuation, zhon.pinyin.vowels, zhon.pinyin.lowercase,
\* restricted to the characters that occur here.
punctuation == {"P"}
vowels == {"a", "e", "i", "o", "a1", "i1"}
lowercase == {"a", "e", "i", "o", "a1", "i1", "x", "n", "k"}

Strings(A, n) == UNION {[1..k -> A] : k \in 0..n}

(* --------------------------------------------------------- reading data *)

\* The tables _load_data builds: hanzi -> ordered readings.
\* H1 reads "xi1", H2 reads "a1n" or "e"; the word H2H1 reads "en" or "o".
_load_data ==
  [words |-> (<< "H2", "H1" >> :> << << "e", "n" >>, << "o" >> >>),
   characters |-> ("H1" :> << << "x", "i1" >> >>) @@
                  ("H2" :> << << "a1", "n" >>, << "e" >> >>)]

(* ------------------------------------------------------------- the state *)

VARIABLES
  _TRADITIONAL_CHARACTERS,  \* set of characters
  _SIMPLIFIED_CHARACTERS,   \* set of characters
  _SHARED_CHARACTERS,       \* set of characters
  _ALL_CHARACTERS,          \* the character class of _get_hanzi
  _WORDS,                   \* headword -> readings
  _CHARACTERS,              \* character -> readings
  threads,                  \* the threads that make calls
  call                      \* thread -> the frame of its current call

vars == << _TRADITIONAL_CHARACTERS, _SIMPLIFIED_CHARACTERS, _SHARED_CHARACTERS,
           _ALL_CHARACTERS, _WORDS, _CHARACTERS, threads, call >>

charsets == << _TRADITIONAL_CHARACTERS, _SIMPLIFIED_CHARACTERS,
               _SHARED_CHARACTERS, _ALL_CHARACTERS >>

\* A frame with no call in it.
Idle ==
  [pc |-> "idle", fn |-> "none", s |-> << >>, delimiter |-> " ",
   all_readings |-> FALSE, accented |-> TRUE, hanzi |-> << >>,
   pinyin |-> << >>, readings |-> << >>, match_end |-> 0, iters |-> 0,
   result |-> [conv |-> << >>, text |-> << >>],
   identity |-> UNKNOWN, truth |-> FALSE]

(* ------------------------------------------------- character-set classifier *)

\* re.sub('[^%s]' % _ALL_CHARACTERS, '', s): s without the characters
\* outside the class.
re_sub_not_in(all, s) == SelectSeq(s, LAMBDA c : c \in all)

\* set(...) of a string.
set(s) == {s[i] : i \in 1..Len(s)}

_get_hanzi(all, s) == set(re_sub_not_in(all, s))

\* identify with the TRADITIONAL test moved before the BOTH test.
identify_traditional_first(trad, simp, shared, all, s) ==
  LET chinese == _get_hanzi(all, s)
  IN  IF chinese = {} THEN UNKNOWN
      ELSE IF chinese \subseteq trad THEN TRADITIONAL
      ELSE IF chinese \subseteq shared THEN BOTH
      ELSE IF chinese \subseteq simp THEN SIMPLIFIED
      ELSE MIXED

\* identify with the SIMPLIFIED test left out.
identify_no_simplified(trad, simp, shared, all, s) ==
  LET chinese == _get_hanzi(all, s)
  IN  IF chinese = {} THEN UNKNOWN
      ELSE IF chinese \subseteq shared THEN BOTH
      ELSE IF chinese \subseteq trad THEN TRADITIONAL
      ELSE MIXED

identify(trad, simp, shared, all, s) ==
  LET chinese == _get_hanzi(all, s)
  IN  IF chinese = {} THEN UNKNOWN
      ELSE IF chinese \subseteq shared THEN BOTH
      ELSE IF chinese \subseteq trad THEN TRADITIONAL
      ELSE IF chinese \subseteq simp THEN SIMPLIFIED
      ELSE MIXED

has_chinese(all, s) == _get_hanzi(all, s) # {}

is_traditional(trad, simp, shared, all, s) ==
  identify(trad, simp, shared, all, s) \in {TRADITIONAL, BOTH}

is_simplified(trad, simp, shared, all, s) ==
  identify(trad, simp, shared, all, s) \in {SIMPLIFIED, BOTH}

(* ------------------------------------------------------------ the scanner *)

\* A character the class [^<delimiter><punctuation>] excludes.
IsSeparator(c, delimiter) == c = delimiter \/ c \in punctuation

\* re.search('[^%s%s]+' % (delimiter, punctuation), hanzi): the first
\* maximal run of characters that are no separators, as Python's span
\* (start, end); found is FALSE when the search returns None.
re_search(delimiter, hanzi) ==
  LET n == Len(hanzi)
      start == CHOOSE i \in 0..n :
                 /\ \A j \in 1..i : IsSeparator(hanzi[j], delimiter)
                 /\ i < n => ~IsSeparator(hanzi[i + 1], delimiter)
      end == CHOOSE e \in start..n :
                 /\ \A j \in (start + 1)..e : ~IsSeparator(hanzi[j], delimiter)
                 /\ e < n => IsSeparator(hanzi[e + 1], delimiter)
  IN  [found |-> start < n, start |-> start, end |-> end]

\* hanzi[a:b] of Python.
Slice(str, a, b) == SubSeq(str, a + 1, b)

\* separator.join(readings).
RECURSIVE join(_, _)
join(separator, readings) ==
  IF readings = << >> THEN << >>
  ELSE IF Len(readings) = 1 THEN readings[1]
  ELSE readings[1] \o << separator >> \o join(separator, Tail(readings))

\* The bracketed form with the first reading alone.
Bracketed_first(readings) == << "[" >> \o readings[1] \o << "]" >>

\* '[%s]' % _READING_SEPARATOR.join(readings)
Bracketed(readings) == << "[" >> \o join(_READING_SEPARATOR, readings) \o << "]" >>

(* ------------------------------------------------ lexical reading resolver *)

\* The element without the lookup in the character table.
Element_literal(characters, character) ==
  [isstr |-> TRUE, character |-> character, list |-> << >>]

\* The character-level element of a resolution: the character itself
\* (a str) or its list of readings.
Element(characters, character) ==
  IF character \in DOMAIN characters
    THEN [isstr |-> FALSE, character |-> character, list |-> characters[character]]
    ELSE [isstr |-> TRUE, character |-> character, list |-> << >>]

\* _hanzi_to_pinyin: the word's readings, or on KeyError one element per
\* character.
_hanzi_to_pinyin(words, characters, hanzi) ==
  IF hanzi \in DOMAIN words
    THEN words[hanzi]
    ELSE [i \in 1..Len(hanzi) |-> Element(characters, hanzi[i])]

\* The headword's reading taken from the end of the list.
WordReading_last(readings, all_readings) ==
  [text |-> IF all_readings THEN Bracketed(readings) ELSE readings[Len(readings)],
   list |-> readings]

\* The headword's reading taken with readings.pop(0).
WordReading_pop(readings, all_readings) ==
  [text |-> IF all_readings THEN Bracketed(readings) ELSE readings[1],
   list |-> IF all_readings THEN readings ELSE Tail(readings)]

\* Lines 197-202: the reading of a run that is a headword, and the list
\* object (the table's own entry) as the statement leaves it.
WordReading(readings, all_readings) ==
  [text |-> IF all_readings THEN Bracketed(readings) ELSE readings[1],
   list |-> readings]

\* The apostrophe rule without the test of the output's last character.
CharReading_any_last(pinyin, element, all_readings) ==
  [pinyin |->
     IF element.isstr THEN Append(pinyin, element.character)
     ELSE IF all_readings THEN pinyin \o Bracketed(element.list)
     ELSE IF pinyin # << >> /\ element.list[1][1] \in vowels
       THEN pinyin \o << "'" >> \o element.list[1]
       ELSE pinyin \o element.list[1],
   list |-> element.list]

\* Lines 207-220: the output after one element of a character-level
\* resolution, and the element's list object (the table's own entry) as
\* the statements leave it.
CharReading(pinyin, element, all_readings) ==
  [pinyin |->
     IF element.isstr THEN Append(pinyin, element.character)
     ELSE IF all_readings THEN pinyin \o Bracketed(element.list)
     ELSE IF /\ pinyin # << >>
             /\ element.list[1][1] \in vowels
             /\ pinyin[Len(pinyin)] \in lowercase
       THEN pinyin \o << "'" >> \o element.list[1]
       ELSE pinyin \o element.list[1],
   list |-> element.list]

(* ------------------------------------------------ transcription bridge *)

\* The converters of dragonmapper.transcriptions, as the pure functions
\* they are: the value records which converters were applied to the text.
accented_to_numbered(value) ==
  [value EXCEPT !.conv = Append(@, "accented_to_numbered")]
pinyin_to_zhuyin(value) ==
  [value EXCEPT !.conv = Append(@, "pinyin_to_zhuyin")]
pinyin_to_ipa(value) ==
  [value EXCEPT !.conv = Append(@, "pinyin_to_ipa")]

\* Lines 225-228, 231-242: what the call returns for the assembled pinyin.
ReturnValue(fn, accented, pinyin) ==
  LET plain == [conv |-> << >>, text |-> pinyin]
      out == IF accented THEN plain ELSE accented_to_numbered(plain)
  IN  CASE fn = "to_zhuyin" -> pinyin_to_zhuyin(out)
        [] fn = "to_ipa" -> pinyin_to_ipa(out)
        [] OTHER -> out

(* ------------------------------------------------------ to_pinyin, by step *)

PinyinFns == {"to_pinyin", "to_zhuyin", "to_ipa"}

\* The text before the match forgotten.
AfterPrefix_dropped(pinyin, hanzi, match) == pinyin

\* The output after lines 190-191.
AfterPrefix(pinyin, hanzi, match) ==
  IF match.start > 0 THEN pinyin \o Slice(hanzi, 0, match.start) ELSE pinyin

\* The remainder forgotten.
AfterRemainder_dropped(pinyin, hanzi) == pinyin

\* The output after line 184.
AfterRemainder(pinyin, hanzi) == pinyin \o hanzi

\* The scan moved to one character before the end of the match.
Advance_short(hanzi, match_end) == Slice(hanzi, match_end - 1, Len(hanzi))

\* Line 223: hanzi[match_end:].
Advance(hanzi, match_end) == Slice(hanzi, match_end, Len(hanzi))

\* Lines 172-173 (and 233, 240: to_zhuyin and to_ipa call to_pinyin with
\* accented = False).
Call(t, fn, s, delimiter, all_readings, accented) ==
  /\ call[t].pc = "idle"
  /\ call' = [call EXCEPT ![t] =
       [Idle EXCEPT !.pc = "while", !.fn = fn, !.s = s,
                    !.delimiter = delimiter, !.all_readings = all_readings,
                    !.accented = (fn = "to_pinyin" /\ accented),
                    !.hanzi = s, !.pinyin = << >>]]
  /\ UNCHANGED << charsets, _WORDS, _CHARACTERS, threads >>

\* Line 176: the loop condition fails.
WhileExit(t) ==
  /\ call[t].pc = "while"
  /\ call[t].hanzi = << >>
  /\ call' = [call EXCEPT ![t].pc = "return"]
  /\ UNCHANGED << charsets, _WORDS, _CHARACTERS, threads >>

\* Lines 179-185: nothing but separators is left.
NoMatch(t) ==
  LET c == call[t]
      match == re_search(c.delimiter, c.hanzi)
  IN  /\ c.pc = "while"
      /\ c.hanzi # << >>
      /\ ~match.found
      /\ call' = [call EXCEPT ![t].pinyin = AfterRemainder(c.pinyin, c.hanzi),
                               ![t].iters = c.iters + 1,
                               ![t].pc = "return"]
      /\ UNCHANGED << charsets, _WORDS, _CHARACTERS, threads >>

\* Lines 179-202, 223: the run is a headword.
MatchWord(t) ==
  LET c == call[t]
      match == re_search(c.delimiter, c.hanzi)
      group == Slice(c.hanzi, match.start, match.end)
      readings == _hanzi_to_pinyin(_WORDS, _CHARACTERS, group)
      r == WordReading(readings, c.all_readings)
  IN  /\ c.pc = "while"
      /\ c.hanzi # << >>
      /\ match.found
      /\ group \in DOMAIN _WORDS
      /\ call' = [call EXCEPT
           ![t].pinyin = AfterPrefix(c.pinyin, c.hanzi, match) \o r.text,
           ![t].hanzi = Advance(c.hanzi, match.end),
           ![t].iters = c.iters + 1]
      /\ _WORDS' = [_WORDS EXCEPT ![group] = r.list]
      /\ UNCHANGED << charsets, _CHARACTERS, threads >>

\* Lines 179-194, 205-207: the run is no headword; the loop over its
\* characters starts.
MatchChars(t) ==
  LET c == call[t]
      match == re_search(c.delimiter, c.hanzi)
      group == Slice(c.hanzi, match.start, match.end)
  IN  /\ c.pc = "while"
      /\ c.hanzi # << >>
      /\ match.found
      /\ group \notin DOMAIN _WORDS
      /\ call' = [call EXCEPT
           ![t].pinyin = AfterPrefix(c.pinyin, c.hanzi, match),
           ![t].readings = _hanzi_to_pinyin(_WORDS, _CHARACTERS, group),
           ![t].match_end = match.end,
           ![t].iters = c.iters + 1,
           ![t].pc = "for"]
      /\ UNCHANGED << charsets, _WORDS, _CHARACTERS, threads >>

\* Lines 207-220: one character of the run.
ForChar(t) ==
  LET c == call[t]
      element == Head(c.readings)
      r == CharReading(c.pinyin, element, c.all_readings)
  IN  /\ c.pc = "for"
      /\ c.readings # << >>
      /\ call' = [call EXCEPT ![t].pinyin = r.pinyin,
                               ![t].readings = Tail(c.readings)]
      /\ _CHARACTERS' =
           IF element.isstr THEN _CHARACTERS
           ELSE [_CHARACTERS EXCEPT ![element.character] = r.list]
      /\ UNCHANGED << charsets, _WORDS, threads >>

\* Line 223 after the loop over the characters.
ForEnd(t) ==
  LET c == call[t]
  IN  /\ c.pc = "for"
      /\ c.readings = << >>
      /\ call' = [call EXCEPT
           ![t].hanzi = Advance(c.hanzi, c.match_end),
           ![t].pc = "while"]
      /\ UNCHANGED << charsets, _WORDS, _CHARACTERS, threads >>

\* Lines 225-228, 234-235, 241-242.
Return(t) ==
  LET c == call[t]
  IN  /\ c.pc = "return"
      /\ call' = [call EXCEPT
           ![t].result = ReturnValue(c.fn, c.accented, c.pinyin),
           ![t].pc = "done"]
      /\ UNCHANGED << charsets, _WORDS, _CHARACTERS, threads >>

\* The caller takes the result; the frame is gone.
Finish(t) ==
  /\ call[t].pc = "done"
  /\ call' = [call EXCEPT ![t] = Idle]
  /\ UNCHANGED << charsets, _WORDS, _CHARACTERS, threads >>

Step(t) ==
  \/ WhileExit(t)
  \/ NoMatch(t)
  \/ MatchWord(t)
  \/ MatchChars(t)
  \/ ForChar(t)
  \/ ForEnd(t)
  \/ Return(t)
  \/ Finish(t)

(* ------------------------------------------- one caller of the converters *)

\* The tables after module import, with given character sets.
Loaded(trad, simp, all) ==
  /\ _TRADITIONAL_CHARACTERS = trad
  /\ _SIMPLIFIED_CHARACTERS = simp
  /\ _SHARED_CHARACTERS = trad \cap simp
  /\ _ALL_CHARACTERS = all
  /\ _WORDS = _load_data.words
  /\ _CHARACTERS = _load_data.characters

Init ==
  /\ Loaded({"H1", "H2"}, {"H2"}, {"H1", "H2"})
  /\ threads = {1}
  /\ call = [t \in threads |-> Idle]

CallPinyin(t) ==
  /\ call[t].pc = "idle"
  /\ \E fn \in PinyinFns, s \in Strings(Alphabet, MaxLen),
        delimiter \in Delimiters, all_readings \in BOOLEAN, accented \in BOOLEAN :
       /\ fn # "to_pinyin" => ~accented
       /\ Call(t, fn, s, delimiter, all_readings, accented)

Next ==
  \/ \E t \in threads : CallPinyin(t)
  \/ \E t \in threads : WhileExit(t)
  \/ \E t \in threads : NoMatch(t)
  \/ \E t \in threads : MatchWord(t)
  \/ \E t \in threads : MatchChars(t)
  \/ \E t \in threads : ForChar(t)
  \/ \E t \in threads : ForEnd(t)
  \/ \E t \in threads : Return(t)
  \/ \E t \in threads : Finish(t)

Spec == Init /\ [][Next]_vars

(* ------------------------------------------------- one caller of to_pinyin *)

CallToPinyin(t) ==
  /\ call[t].pc = "idle"
  /\ \E s \in Strings(Alphabet, MaxLen), delimiter \in Delimiters,
        all_readings \in BOOLEAN, accented \in BOOLEAN :
       Call(t, "to_pinyin", s, delimiter, all_readings, accented)

NextLoop ==
  \/ \E t \in threads : CallToPinyin(t)
  \/ \E t \in threads : WhileExit(t)
  \/ \E t \in threads : NoMatch(t)
  \/ \E t \in threads : MatchWord(t)
  \/ \E t \in threads : MatchChars(t)
  \/ \E t \in threads : ForChar(t)
  \/ \E t \in threads : ForEnd(t)
  \/ \E t \in threads : Return(t)
  \/ \E t \in threads : Finish(t)

\* The interpreter runs a call that has started to its end.
SpecLoop == Init /\ [][NextLoop]_vars /\ WF_vars(Step(1))

(* ------------------------------------------------ callers of the classifier *)

ClassifierFns == {"identify", "has_chinese", "is_traditional", "is_simplified"}

\* Lines 71-132: one call of a classifier function, whole.
CallClassifier(t, fn, s) ==
  /\ call[t].pc = "idle"
  /\ call' = [call EXCEPT ![t] =
       [Idle EXCEPT
          !.pc = "done", !.fn = fn, !.s = s,
          !.identity =
             IF fn = "identify"
               THEN identify(_TRADITIONAL_CHARACTERS, _SIMPLIFIED_CHARACTERS,
                             _SHARED_CHARACTERS, _ALL_CHARACTERS, s)
               ELSE UNKNOWN,
          !.truth =
             CASE fn = "has_chinese" -> has_chinese(_ALL_CHARACTERS, s)
               [] fn = "is_traditional" ->
                    is_traditional(_TRADITIONAL_CHARACTERS, _SIMPLIFIED_CHARACTERS,
                                   _SHARED_CHARACTERS, _ALL_CHARACTERS, s)
               [] fn = "is_simplified" ->
                    is_simplified(_TRADITIONAL_CHARACTERS, _SIMPLIFIED_CHARACTERS,
                                  _SHARED_CHARACTERS, _ALL_CHARACTERS, s)
               [] OTHER -> FALSE]]
  /\ UNCHANGED << charsets, _WORDS, _CHARACTERS, threads >>

\* Every choice of the character-set tables.
InitIdentify ==
  /\ \E trad \in SUBSET IdChars, simp \in SUBSET IdChars, all \in SUBSET IdChars :
       Loaded(trad, simp, all)
  /\ threads = {1}
  /\ call = [t \in threads |-> Idle]

CallIdentify(t) ==
  /\ call[t].pc = "idle"
  /\ \E fn \in ClassifierFns, s \in Strings(IdChars, MaxIdLen) :
       CallClassifier(t, fn, s)

NextIdentify ==
  \/ \E t \in threads : CallIdentify(t)
  \/ \E t \in threads : Finish(t)

SpecIdentify == InitIdentify /\ [][NextIdentify]_vars

(* ------------------------------------------------------- concurrent callers *)

\* The strings the concurrent callers pass: a headword, two characters
\* that need an apostrophe, and a run between separators.
SharedInputs == { << "H2", "H1" >>, << "H1", "H2" >>, << "P", "H2", "P" >> }

InitCalls ==
  /\ Loaded({"H1", "H2"}, {"H2"}, {"H1", "H2"})
  /\ threads = {1, 2}
  /\ call = [t \in threads |-> Idle]

CallShared(t) ==
  /\ call[t].pc = "idle"
  /\ \E fn \in PinyinFns, s \in SharedInputs, all_readings \in BOOLEAN,
        accented \in BOOLEAN :
       /\ fn # "to_pinyin" => ~accented
       /\ Call(t, fn, s, " ", all_readings, accented)

CallSharedClassifier(t) ==
  /\ call[t].pc = "idle"
  /\ \E fn \in ClassifierFns, s \in SharedInputs : CallClassifier(t, fn, s)

NextCalls ==
  \/ \E t \in threads : CallShared(t)
  \/ \E t \in threads : CallSharedClassifier(t)
  \/ \E t \in threads : WhileExit(t)
  \/ \E t \in threads : NoMatch(t)
  \/ \E t \in threads : MatchWord(t)
  \/ \E t \in threads : MatchChars(t)
  \/ \E t \in threads : ForChar(t)
  \/ \E t \in threads : ForEnd(t)
  \/ \E t \in threads : Return(t)
  \/ \E t \in threads : Finish(t)

SpecCalls == InitCalls /\ [][NextCalls]_vars

(* ---------------------------------------------------------- the classifier *)

\* A finished call of fn by thread t.
Returned(t, fn) == call[t].pc = "done" /\ call[t].fn = fn

\* The distinct characters of s that belong to AllCharacters.
Extracted(s) == {c \in _ALL_CHARACTERS : \E i \in 1..Len(s) : s[i] = c}

\* The identity the ordered cascade gives the extracted set C.
Cascade(C, trad, simp) ==
  CASE C = {} -> UNKNOWN
    [] C # {} /\ C \subseteq trad \cap simp -> BOTH
    [] C # {} /\ ~(C \subseteq trad \cap simp) /\ C \subseteq trad -> TRADITIONAL
    [] C # {} /\ ~(C \subseteq trad) /\ C \subseteq simp -> SIMPLIFIED
    [] OTHER -> MIXED

\* C1: identify(s) is decided by the set C of distinct characters of s in
\* AllCharacters alone, by the ordered cascade UNKNOWN (C empty), BOTH
\* (C within TraditionalSet /\ SimplifiedSet), TRADITIONAL, SIMPLIFIED,
\* MIXED; a string whose Chinese characters are all shared is never
\* TRADITIONAL or SIMPLIFIED.
C1_IdentifyCascade ==
  \A t \in threads :
    Returned(t, "identify") =>
      LET C == Extracted(call[t].s)
          SharedSet == _TRADITIONAL_CHARACTERS \cap _SIMPLIFIED_CHARACTERS
      IN  /\ call[t].identity =
               Cascade(C, _TRADITIONAL_CHARACTERS, _SIMPLIFIED_CHARACTERS)
          /\ (C # {} /\ C \subseteq SharedSet) =>
               call[t].identity \notin {TRADITIONAL, SIMPLIFIED}

\* A string of shared characters, one of them repeated, with a character
\* outside AllCharacters in it, has been identified as BOTH.
C1_Witness ==
  \E t \in threads :
    /\ Returned(t, "identify")
    /\ call[t].identity = BOTH
    /\ \E i \in 1..Len(call[t].s) : call[t].s[i] \notin _ALL_CHARACTERS
    /\ \E i, j \in 1..Len(call[t].s) : i # j /\ call[t].s[i] = call[t].s[j]
    /\ _TRADITIONAL_CHARACTERS # _SIMPLIFIED_CHARACTERS

WordReadings == _load_data.words
CharacterReadings == _load_data.characters

\* c is the delimiter d or a punctuation mark.
Separates(c, d) == c \in {d} \cup punctuation

\* s[a..b] is a maximal run of s without separators.
IsRun(s, d, a, b) ==
  /\ 1 <= a /\ a <= b /\ b <= Len(s)
  /\ \A j \in a..b : ~Separates(s[j], d)
  /\ a > 1 => Separates(s[a - 1], d)
  /\ b < Len(s) => Separates(s[b + 1], d)

\* w occurs in text as a contiguous part.
Contains(text, w) ==
  \E i \in 0..(Len(text) - Len(w)) : SubSeq(text, i + 1, i + Len(w)) = w

\* s without its characters that are no separators.
Separators(s, d) == SelectSeq(s, LAMBDA c : Separates(c, d))

\* The readings in table order with a slash between them, in brackets.
RECURSIVE Slashed(_)
Slashed(rs) ==
  IF Len(rs) = 1 THEN rs[1]
  ELSE Slashed(SubSeq(rs, 1, Len(rs) - 1)) \o << "/" >> \o rs[Len(rs)]
Alternates(rs) == << "[" >> \o Slashed(rs) \o << "]" >>

\* What one character adds to the output out.
Piece(out, c, ar) ==
  IF c \notin DOMAIN CharacterReadings THEN << c >>
  ELSE IF ar THEN Alternates(CharacterReadings[c])
  ELSE IF /\ out # << >>
          /\ out[Len(out)] \in lowercase
          /\ CharacterReadings[c][1][1] \in vowels
    THEN << "'" >> \o CharacterReadings[c][1]
    ELSE CharacterReadings[c][1]

\* The output out followed by the run rendered character by character.
RECURSIVE PerCharacter(_, _, _)
PerCharacter(out, run, ar) ==
  IF run = << >> THEN out
  ELSE PerCharacter(out \o Piece(out, Head(run), ar), Tail(run), ar)

\* The end of the run of rest that starts at i.
RECURSIVE RunEnd(_, _, _)
RunEnd(rest, d, i) ==
  IF i < Len(rest) /\ ~Separates(rest[i + 1], d) THEN RunEnd(rest, d, i + 1) ELSE i

\* The output out followed by the rendering of rest: separators as they
\* are, a run that is a headword by the word's readings, any other run
\* character by character.
RECURSIVE Rendering(_, _, _, _)
Rendering(out, rest, d, ar) ==
  IF rest = << >> THEN out
  ELSE IF Separates(rest[1], d)
    THEN Rendering(Append(out, rest[1]), Tail(rest), d, ar)
  ELSE LET e == RunEnd(rest, d, 1)
           run == SubSeq(rest, 1, e)
           after == SubSeq(rest, e + 1, Len(rest))
       IN  IF run \in DOMAIN WordReadings
             THEN Rendering(out \o (IF ar THEN Alternates(WordReadings[run])
                                          ELSE WordReadings[run][1]),
                            after, d, ar)
             ELSE Rendering(PerCharacter(out, run, ar), after, d, ar)

\* A finished call of to_pinyin with accented = True by thread t.
Accented(t) == Returned(t, "to_pinyin") /\ call[t].accented

(* ----------------------------------------------------------- word lookup *)

\* C3: for a multi-character headword w without separators, to_pinyin(w)
\* in best-reading, accented mode is exactly the first reading of w.
C3_WordPrecedence ==
  \A t \in threads :
    LET c == call[t]
    IN  ( /\ Accented(t)
          /\ ~c.all_readings
          /\ Len(c.s) > 1
          /\ c.s \in DOMAIN WordReadings
          /\ \A i \in 1..Len(c.s) : ~Separates(c.s[i], c.delimiter) )
        => c.result = [conv |-> << >>, text |-> WordReadings[c.s][1]]

\* The headword H2H1, whose characters both have readings of their own
\* that concatenate to something else, has been converted.
C3_Witness ==
  \E t \in threads :
    LET c == call[t]
    IN  /\ Accented(t)
        /\ ~c.all_readings
        /\ c.s = << "H2", "H1" >>
        /\ c.s \in DOMAIN WordReadings
        /\ \A i \in 1..Len(c.s) : c.s[i] \in DOMAIN CharacterReadings
        /\ c.result.text = << "e", "n" >>
        /\ c.result.text # PerCharacter(<< >>, c.s, FALSE)

\* C4 as stated: when a run as a whole is no headword but a contiguous
\* part of it is one, that part is rendered with the headword's first
\* reading, so the reading occurs in the output.
C4_GreedyInsideRun ==
  \A t \in threads :
    LET c == call[t]
    IN  (Accented(t) /\ ~c.all_readings) =>
          \A a, b \in 1..Len(c.s) :
            ( /\ IsRun(c.s, c.delimiter, a, b)
              /\ SubSeq(c.s, a, b) \notin DOMAIN WordReadings )
            => \A w \in DOMAIN WordReadings :
                 Contains(SubSeq(c.s, a, b), w) =>
                   Contains(c.result.text, WordReadings[w][1])

\* C4, amended: only a run that as a whole is a headword takes the word's
\* reading; every other run is resolved character by character through
\* CharacterReadings, also where a contiguous part of it is a headword.
C4_WholeRunOnly ==
  \A t \in threads :
    LET c == call[t]
    IN  (Accented(t) /\ ~c.all_readings) =>
          /\ c.result.text = Rendering(<< >>, c.s, c.delimiter, FALSE)
          /\ ( /\ c.s # << >>
                /\ \A i \in 1..Len(c.s) : ~Separates(c.s[i], c.delimiter)
                /\ c.s \notin DOMAIN WordReadings )
              => c.result.text = PerCharacter(<< >>, c.s, FALSE)

\* A run that is no headword but has the headword H2H1 inside it has been
\* converted.
C4_Witness ==
  \E t \in threads :
    LET c == call[t]
    IN  /\ Accented(t)
        /\ ~c.all_readings
        /\ \A i \in 1..Len(c.s) : ~Separates(c.s[i], c.delimiter)
        /\ c.s \notin DOMAIN WordReadings
        /\ \E w \in DOMAIN WordReadings : Contains(c.s, w)

(* ------------------------------------------------------------- assembly *)

\* The number of separators rest starts with.
RECURSIVE Leading(_, _)
Leading(rest, d) ==
  IF rest # << >> /\ Separates(rest[1], d) THEN 1 + Leading(Tail(rest), d) ELSE 0

\* C5: an apostrophe is put before a reading exactly when all_readings is
\* false, the reading is the first reading of a single character found in
\* CharacterReadings, the output so far is non-empty and ends in a
\* lowercase letter, and the reading starts with a vowel; none is put
\* before a word's reading, a bracketed group or an unknown character.
C5_ApostropheRule ==
  [][ LET c == call[1]
          n == call'[1]
      IN  /\ (c.pc = "for" /\ c.readings # << >> /\ n # c) =>
               LET ch == Head(c.readings).character
                   known == ch \in DOMAIN CharacterReadings
                   emitted == IF ~known THEN << ch >>
                              ELSE IF c.all_readings
                                THEN Alternates(CharacterReadings[ch])
                                ELSE CharacterReadings[ch][1]
                   apostrophe == /\ ~c.all_readings
                                 /\ known
                                 /\ c.pinyin # << >>
                                 /\ c.pinyin[Len(c.pinyin)] \in lowercase
                                 /\ emitted[1] \in vowels
               IN  n.pinyin = c.pinyin \o (IF apostrophe THEN << "'" >> ELSE << >>)
                                       \o emitted
          /\ (c.pc = "while" /\ n.pc = "while" /\ n # c) =>
               LET k == Leading(c.hanzi, c.delimiter)
                   run == SubSeq(c.hanzi, k + 1, RunEnd(c.hanzi, c.delimiter, k + 1))
               IN  n.pinyin = c.pinyin \o SubSeq(c.hanzi, 1, k)
                                       \o (IF c.all_readings
                                             THEN Alternates(WordReadings[run])
                                             ELSE WordReadings[run][1])
    ]_vars

\* H1 H2, reading "xi1" and "a1n", has been converted to "xi1'a1n".
C5_Witness ==
  LET c == call[1]
  IN  /\ Accented(1)
      /\ ~c.all_readings
      /\ c.s = << "H1", "H2" >>
      /\ c.result.text = << "x", "i1", "'", "a1", "n" >>

\* C6: a string without Hanzi (no character in CharacterReadings, no run
\* in WordReadings) comes back from to_pinyin unchanged, for every
\* delimiter and both values of all_readings.
C6_PassThrough ==
  \A t \in threads :
    LET c == call[t]
    IN  ( /\ Accented(t)
          /\ \A i \in 1..Len(c.s) : c.s[i] \notin DOMAIN CharacterReadings
          /\ \A a, b \in 1..Len(c.s) :
               IsRun(c.s, c.delimiter, a, b) => SubSeq(c.s, a, b) \notin DOMAIN WordReadings )
        => c.result = [conv |-> << >>, text |-> c.s]

\* A string without Hanzi that starts and ends with separators around
\* other text has been converted with all_readings = true.
C6_Witness ==
  \E t \in threads :
    LET c == call[t]
    IN  /\ Accented(t)
        /\ c.all_readings
        /\ Len(c.s) >= 3
        /\ \A i \in 1..Len(c.s) : c.s[i] \notin DOMAIN CharacterReadings
        /\ Separates(c.s[1], c.delimiter)
        /\ Separates(c.s[Len(c.s)], c.delimiter)
        /\ \E i \in 1..Len(c.s) : ~Separates(c.s[i], c.delimiter)
        /\ c.result.text = c.s

\* The units of s that are resolved: runs that are headwords, and the
\* known characters of the other runs.
ResolvedUnits(s, d) ==
  {<< a, b >> \in (1..Len(s)) \X (1..Len(s)) :
     /\ IsRun(s, d, a, b)
     /\ SubSeq(s, a, b) \in DOMAIN WordReadings}
  \cup
  {<< i, i >> : i \in {j \in 1..Len(s) :
     /\ s[j] \in DOMAIN CharacterReadings
     /\ \E a, b \in 1..Len(s) :
          /\ IsRun(s, d, a, b) /\ a <= j /\ j <= b
          /\ SubSeq(s, a, b) \notin DOMAIN WordReadings}}

\* How often character x occurs in text.
Count(text, x) == Cardinality({i \in 1..Len(text) : text[i] = x})

\* C7: with all_readings = true every resolved unit is written as "["
\* its readings in table order joined by "/" "]", one group per unit;
\* unknown characters are written without brackets.
C7_AllReadings ==
  \A t \in threads :
    LET c == call[t]
    IN  (Accented(t) /\ c.all_readings) =>
          /\ c.result.text = Rendering(<< >>, c.s, c.delimiter, TRUE)
          /\ Count(c.result.text, "[") = Cardinality(ResolvedUnits(c.s, c.delimiter))
          /\ Count(c.result.text, "]") = Cardinality(ResolvedUnits(c.s, c.delimiter))
          /\ c.s = << "H2" >> => c.result.text = << "[", "a1", "n", "/", "e", "]" >>
          /\ c.s = << "H2", "H1" >> => c.result.text = << "[", "e", "n", "/", "o", "]" >>

\* A headword with two readings, a separator and a character with two
\* readings next to an unknown character have been converted.
C7_Witness ==
  \E t \in threads :
    LET c == call[t]
    IN  /\ Accented(t)
        /\ c.all_readings
        /\ c.delimiter = " "
        /\ c.s = << "H2", "H1", "P", "H2" >>
        /\ c.result.text =
             << "[", "e", "n", "/", "o", "]", "P", "[", "a1", "n", "/", "e", "]" >>

(* ----------------------------------------------------------- the scan loop *)

\* The part of the input the scan has passed.
Consumed(c) == SubSeq(c.s, 1, Len(c.s) - Len(c.hanzi))

\* C9: in to_pinyin with accented = true the input is always the consumed
\* prefix followed by the remaining suffix; at the head of the loop the
\* output is the rendering of the consumed prefix, with the separators of
\* the prefix in it once each and in order; the result has the separators
\* of the whole input.
C9_SeparatorsKept ==
  \A t \in threads :
    LET c == call[t]
    IN  (c.fn = "to_pinyin" /\ c.accented) =>
          /\ c.pc \in {"while", "for", "return"} =>
               /\ Len(c.hanzi) <= Len(c.s)
               /\ c.s = Consumed(c) \o c.hanzi
          /\ c.pc = "while" =>
               /\ Separators(c.pinyin, c.delimiter) \o Separators(c.hanzi, c.delimiter)
                    = Separators(c.s, c.delimiter)
               /\ c.pinyin = Rendering(<< >>, Consumed(c), c.delimiter, c.all_readings)
          /\ c.pc = "done" =>
               Separators(c.result.text, c.delimiter) = Separators(c.s, c.delimiter)

\* A string with a leading separator, two separators in a row and a
\* trailing one has been converted.
C9_Witness ==
  \E t \in threads :
    LET c == call[t]
    IN  /\ Accented(t)
        /\ c.delimiter = " "
        /\ c.s = << "P", "H1", " ", "P" >>
        /\ c.result.text = << "P", "x", "i1", " ", "P" >>

\* The loop has run at most once per character consumed.
LoopBound ==
  LET c == call[1]
  IN  c.fn \in PinyinFns =>
        /\ c.iters <= Len(c.s)
        /\ c.pc = "while" => c.iters + Len(c.hanzi) <= Len(c.s)
        /\ (c.pc = "done" /\ c.s = << >>) =>
             c.iters = 0 /\ c.result.text = << >>

\* A pass of the loop shortens the remaining suffix by the matched run,
\* which is not empty, or appends the whole remainder and leaves the loop.
LoopProgress ==
  LET c == call[1]
      n == call'[1]
  IN  /\ (c.pc = "while" /\ n # c) =>
           \/ n.pc = "while" /\ Len(n.hanzi) < Len(c.hanzi)
           \/ n.pc = "for" /\ n.match_end >= 1 /\ n.hanzi = c.hanzi
           \/ n.pc = "return" /\ n.pinyin = c.pinyin \o c.hanzi
      /\ (c.pc = "for" /\ n # c) =>
           \/ n.pc = "for" /\ Len(n.readings) < Len(c.readings)
           \/ n.pc = "while" /\ Len(n.hanzi) < Len(c.hanzi)

\* C10: the scan loop of to_pinyin runs at most len(s) times, each pass
\* shortening the remaining suffix or ending the loop; every call returns;
\* the empty input returns the empty string without entering the loop.
C10_Terminates ==
  /\ []LoopBound
  /\ [][LoopProgress]_vars
  /\ (call[1].pc \in {"while", "for", "return"}) ~> (call[1].pc = "done")

\* A call whose loop ran three times has returned.
C10_Witness ==
  LET c == call[1]
  IN  c.pc = "done" /\ c.fn \in PinyinFns /\ c.iters = 3 /\ Len(c.s) = 4

(* ------------------------------------------------------- concurrent calls *)

\* The converters applied to the result of fn.
Converters(fn, accented) ==
  CASE fn = "to_zhuyin" -> << "accented_to_numbered", "pinyin_to_zhuyin" >>
    [] fn = "to_ipa" -> << "accented_to_numbered", "pinyin_to_ipa" >>
    [] fn = "to_pinyin" /\ ~accented -> << "accented_to_numbered" >>
    [] OTHER -> << >>

\* C8: under any interleaving of calls the character sets and the reading
\* tables stay as loaded, and every call returns what it returns alone.
C8_NoSharedState ==
  /\ _WORDS = WordReadings
  /\ _CHARACTERS = CharacterReadings
  /\ _TRADITIONAL_CHARACTERS = {"H1", "H2"}
  /\ _SIMPLIFIED_CHARACTERS = {"H2"}
  /\ _SHARED_CHARACTERS = {"H2"}
  /\ _ALL_CHARACTERS = {"H1", "H2"}
  /\ \A t \in threads :
       LET c == call[t]
           identity == Cascade(Extracted(c.s), {"H1", "H2"}, {"H2"})
       IN  c.pc = "done" =>
             /\ c.fn \in PinyinFns =>
                  c.result = [conv |-> Converters(c.fn, c.accented),
                              text |-> Rendering(<< >>, c.s, c.delimiter, c.all_readings)]
             /\ c.fn = "identify" => c.identity = identity
             /\ c.fn = "has_chinese" => c.truth = (identity # UNKNOWN)
             /\ c.fn = "is_traditional" => c.truth = (identity \in {TRADITIONAL, BOTH})
             /\ c.fn = "is_simplified" => c.truth = (identity \in {SIMPLIFIED, BOTH})

\* One thread has returned from to_zhuyin of the headword while the other
\* is inside the character loop of a to_pinyin call.
C8_Witness ==
  /\ call[1].pc = "done" /\ call[1].fn = "to_zhuyin"
  /\ call[1].s = << "H2", "H1" >> /\ ~call[1].all_readings
  /\ call[2].pc = "for" /\ call[2].fn = "to_pinyin"
  /\ call[2].s = << "H1", "H2" >> /\ call[2].pinyin # << >>

====
